---- MODULE Spec2Model ----
(***************************************************************************)
(* Word-grid puzzle generator: Trie, adjacency, DFS word finder,           *)
(* structural validator and the rejection-sampling loop of                 *)
(* generateDailyPuzzle (src/build_dictionary.js).                          *)
(*                                                                         *)
(* Encoding of the JavaScript values:                                      *)
(*  - a string is a sequence of one-letter strings;                        *)
(*  - a trie root (nested plain objects) is the record                     *)
(*      [nodes |-> the set of paths from the root that lead to an object,  *)
(*       isEndOfWord |-> the paths whose object has isEndOfWord === true]; *)
(*    a node is named by the path that leads to it, the root by << >>;     *)
(*  - a board is a function from the cell indices 0..15 to letters.        *)
(*                                                                         *)
(* Leaderboard service (src/functions/src/index.ts): submitScore and       *)
(* resetDailyLeaderboards over the Redis sorted sets and the Firestore     *)
(* collections.  A sorted set is a function from its members to their      *)
(* scores; a key that does not exist is the empty sorted set.              *)
(***************************************************************************)
EXTENDS Integers, Sequences, FiniteSets, TLC

\* Bounds: length and number of the words inserted at build time, and the
\* number of invocations of generateDailyPuzzle in one process.
MaxLen == 3
MaxInserts == 3
MaxRuns == 2
\* Number of calls of submitScore in one behaviour of the leaderboard.
MaxSubmits == 2

VARIABLES
  \* build-time script (buildAndSaveDictionary) and the run-time queries
  dictionaryTrie, words, answers,
  \* calls of solveBoard: the input under test, the input and the returned
  \* set of the latest call, and what the first call on the input returned
  solveIn, lastCall, lastFound, firstFound,
  \* generateDailyPuzzle: the two dictionary files, the module-level tries,
  \* the handler's position and locals, the dailyPuzzles collection, and what
  \* each finished invocation returned, logged and wrote
  files, fullDictionaryTrie, commonDictionaryTrie, trieBuilds,
  pc, todayStr, attempt, foundBoard, samples, runs,
  dailyPuzzles, outcomes, today,
  \* calls of the grid helpers (getNeighbors, the neighbour loop of
  \* findWordsRecursive, checkNoClumps, the Q-U check): the arguments under
  \* test and what the latest call did
  gridIn, gridOut,
  \* one iteration of the loop body of generateDailyPuzzle, statement by
  \* statement: the sampled board, the statement reached, the checks
  \* evaluated so far, and the locals commonWords and allWords
  bodyBoard, bodyAt, bodyLog, bodyCommonWords, bodyAllWords,
  \* one call of solveBoard, step by step: the input, the position in
  \* solveBoard, its loop index, the stack of findWordsRecursive frames
  \* and the contents of foundWordsSet
  dfsIn, dfsPc, dfsI, dfsStack, dfsFound,
  \* leaderboard service: the Redis keys, the Firestore collections games
  \* and players, the invocations of submitScore in flight with their
  \* locals and position, what the finished invocations returned and
  \* threw, and the number of invocations so far
  redis, games, players, calls, returned, thrown, submits

trieVars == <<dictionaryTrie, words, answers>>
solveVars == <<solveIn, lastCall, lastFound, firstFound>>
genVars == <<files, fullDictionaryTrie, commonDictionaryTrie, trieBuilds,
             pc, todayStr, attempt, foundBoard, samples, runs,
             dailyPuzzles, outcomes, today>>
gridVars == <<gridIn, gridOut>>
bodyVars == <<bodyBoard, bodyAt, bodyLog, bodyCommonWords, bodyAllWords>>
dfsVars == <<dfsIn, dfsPc, dfsI, dfsStack, dfsFound>>
scoreVars == <<redis, games, players, calls, returned, thrown, submits>>
auxVars == <<gridVars, bodyVars, dfsVars, scoreVars>>
vars == <<trieVars, solveVars, genVars, auxVars>>

\* --- Constants & helper code ---------------------------------------------
GRID_SIZE == 16
GRID_COLS == 4
VOWELS == {"A", "E", "I", "O", "U"}
HARD_CONSONANTS == {"J", "K", "Q", "X", "Z"}

\* --- Trie ----------------------------------------------------------------
\* constructor(): this.root = {}
EmptyRoot == [nodes |-> {<< >>}, isEndOfWord |-> {}]

\* constructor(data = null): this.root = data || {}
Null == [null |-> TRUE]
Trie(data) == [root |-> IF data = Null THEN EmptyRoot ELSE data]

Prefixes(word) == {SubSeq(word, 1, k) : k \in 0..Len(word)}

\* insert(word): create the missing nodes along word, mark the last one.
insert(t, word) ==
  [root |-> [nodes |-> t.root.nodes \cup Prefixes(word),
             isEndOfWord |-> t.root.isEndOfWord \cup {word}]]

\* Variant of IsMarked that takes every existing node for a complete word.
IsMarkedAnyNode(t, node) == node \in t.root.nodes

\* node.isEndOfWord === true
IsMarked(t, node) == node \in t.root.isEndOfWord

\* Variant of searchFrom that answers a word query like a prefix query.
RECURSIVE searchFromIgnoringMark(_, _, _, _, _)
searchFromIgnoringMark(t, node, word, i, isPrefix) ==
  IF i > Len(word)
    THEN TRUE
    ELSE LET child == Append(node, word[i])
         IN  IF child \notin t.root.nodes
               THEN FALSE
               ELSE searchFromIgnoringMark(t, child, word, i + 1, isPrefix)

\* Variant of searchFrom whose loop stops one character early.
RECURSIVE searchFromShort(_, _, _, _, _)
searchFromShort(t, node, word, i, isPrefix) ==
  IF i >= Len(word)
    THEN (IF isPrefix THEN TRUE
          ELSE i = Len(word) /\ Append(node, word[i]) \in t.root.isEndOfWord)
    ELSE LET child == Append(node, word[i])
         IN  IF child \notin t.root.nodes
               THEN FALSE
               ELSE searchFromShort(t, child, word, i + 1, isPrefix)

\* The loop of search: node is the object reached after the first i-1 chars.
RECURSIVE searchFrom(_, _, _, _, _)
searchFrom(t, node, word, i, isPrefix) ==
  IF i > Len(word)
    THEN (IF isPrefix THEN TRUE ELSE IsMarked(t, node))
    ELSE LET child == Append(node, word[i])
         IN  IF child \notin t.root.nodes
               THEN FALSE
               ELSE searchFrom(t, child, word, i + 1, isPrefix)

search(t, word, isPrefix) == searchFrom(t, << >>, word, 1, isPrefix)

\* The trie left by inserting every word of ws into a new Trie(), in any
\* order (the loop "for (const word of words) dictionaryTrie.insert(word)").
TrieOfWords(ws) ==
  [root |-> [nodes |-> {<< >>} \cup UNION {Prefixes(w) : w \in ws},
             isEndOfWord |-> ws]]

\* --- Word finder -----------------------------------------------------------
Range(seq) == {seq[k] : k \in 1..Len(seq)}

\* The (r_offset, c_offset) pairs in the order of the two nested loops.
Offsets ==
  << <<-1, -1>>, <<-1, 0>>, <<-1, 1>>,
     << 0, -1>>, << 0, 0>>, << 0, 1>>,
     << 1, -1>>, << 1, 0>>, << 1, 1>> >>

\* Variant of InGrid with an off-by-one upper column bound.
InGridNarrow(nextCol, nextRow) ==
  nextCol >= 0 /\ nextCol < GRID_COLS - 1 /\ nextRow >= 0 /\ nextRow < GRID_COLS

\* nextCol >= 0 && nextCol < GRID_COLS && nextRow >= 0 && nextRow < GRID_COLS
InGrid(nextCol, nextRow) ==
  nextCol >= 0 /\ nextCol < GRID_COLS /\ nextRow >= 0 /\ nextRow < GRID_COLS

\* prefix.length >= 3
MinWordLength == 3

\* Variant of IsWordHere that lets two-letter words through.
IsWordHereTwo(prefix, t) ==
  Len(prefix) >= 2 /\ search(t, prefix, FALSE)

\* prefix.length >= 3 && trie.search(prefix)
IsWordHere(prefix, t) ==
  Len(prefix) >= MinWordLength /\ search(t, prefix, FALSE)

\* board[i]: undefined when i is not an index of the array.
letterAt(board, i) == IF i \in DOMAIN board THEN board[i] ELSE "undefined"

\* The characters that `prefix += x` appends: String(undefined) is
\* "undefined".
chars(x) ==
  IF x = "undefined"
    THEN <<"u", "n", "d", "e", "f", "i", "n", "e", "d">>
    ELSE <<x>>

\* Variant of pathIncludes that looks at the latest cell only.
pathIncludesLast(path, nextIndex) == path[Len(path)] = nextIndex

\* path.includes(nextIndex)
pathIncludes(path, nextIndex) == nextIndex \in Range(path)

\* The nextIndex values on which the two nested offset loops recurse.
nextIndices(tileIndex, path) ==
  LET col == tileIndex % GRID_COLS
      row == tileIndex \div GRID_COLS
      nextCol(k) == col + Offsets[k][2]
      nextRow(k) == row + Offsets[k][1]
      nextIndex(k) == nextRow(k) * GRID_COLS + nextCol(k)
      taken == {k \in 1..Len(Offsets) :
                  /\ ~(Offsets[k][1] = 0 /\ Offsets[k][2] = 0)
                  /\ InGrid(nextCol(k), nextRow(k))
                  /\ ~pathIncludes(path, nextIndex(k))}
  IN  {nextIndex(k) : k \in taken}

\* findWordsRecursive returns the contents of foundWordsSet after the call.
\* foundWordsSet only ever grows (Set.add) and is never read by the search, so
\* the contents after the two nested offset loops are the union of what each
\* recursive call leaves behind.
RECURSIVE findWordsRecursive(_, _, _, _, _, _)
findWordsRecursive(tileIndex, prefix0, path, foundWordsSet, board, t) ==
  LET prefix == prefix0 \o chars(letterAt(board, tileIndex))
  IN  IF ~search(t, prefix, TRUE)
        THEN foundWordsSet
        ELSE LET found == IF IsWordHere(prefix, t)
                            THEN foundWordsSet \cup {prefix}
                            ELSE foundWordsSet
             IN  found \cup
                 UNION {findWordsRecursive(nextIndex, prefix,
                                           Append(path, nextIndex),
                                           found, board, t) :
                          nextIndex \in nextIndices(tileIndex, path)}

\* for (let i = 0; i < GRID_SIZE; i++) findWordsRecursive(i, "", [i], ...)
RECURSIVE solveFrom(_, _, _, _)
solveFrom(i, foundWordsSet, board, t) ==
  IF i >= GRID_SIZE
    THEN foundWordsSet
    ELSE solveFrom(i + 1,
                   findWordsRecursive(i, << >>, <<i>>, foundWordsSet, board, t),
                   board, t)

\* Variant of NewSet: one set kept at module level and reused by every call.
NewSetShared == lastFound

\* new Set()
NewSet == {}

\* const foundWordsSet = new Set(); ...; return foundWordsSet
solveBoard(board, t) == solveFrom(0, NewSet, board, t)

\* --- Constraint validator ---------------------------------------------------
\* board.filter(l => VOWELS.includes(l)).length
vowelCount(board) == Cardinality({i \in DOMAIN board : board[i] \in VOWELS})

\* board.filter(l => HARD_CONSONANTS.includes(l)).length
hardConsonantCount(board) ==
  Cardinality({i \in DOMAIN board : board[i] \in HARD_CONSONANTS})

\* board.indexOf(letter): the first index holding letter, or -1.
indexOf(board, letter) ==
  LET at == {i \in DOMAIN board : board[i] = letter}
  IN  IF at = {} THEN -1 ELSE CHOOSE i \in at : \A j \in at : i <= j

\* getNeighbors: the letters of the in-grid neighbours, in loop order.
RECURSIVE neighborsFrom(_, _, _)
neighborsFrom(k, index, board) ==
  IF k > Len(Offsets)
    THEN << >>
    ELSE LET r_offset == Offsets[k][1]
             c_offset == Offsets[k][2]
             checkCol == (index % GRID_COLS) + c_offset
             checkRow == (index \div GRID_COLS) + r_offset
             rest == neighborsFrom(k + 1, index, board)
         IN  IF r_offset = 0 /\ c_offset = 0
               THEN rest
               ELSE IF checkCol >= 0 /\ checkCol < GRID_COLS
                       /\ checkRow >= 0 /\ checkRow < GRID_COLS
                 THEN <<letterAt(board, checkRow * GRID_COLS + checkCol)>> \o rest
                 ELSE rest

\* Variant of getNeighbors that steps through the flat array and wraps
\* across the row edges.
getNeighborsWrapping(index, board) ==
  LET steps == <<-5, -4, -3, -1, 1, 3, 4, 5>>
      RECURSIVE from(_)
      from(k) ==
        IF k > Len(steps)
          THEN << >>
          ELSE IF index + steps[k] \in 0..(GRID_SIZE - 1)
                 THEN <<letterAt(board, index + steps[k])>> \o from(k + 1)
                 ELSE from(k + 1)
  IN  from(1)

getNeighbors(index, board) == neighborsFrom(1, index, board)

\* Variant of checkNoClumps that looks for all-vowel windows only.
checkNoClumpsVowelsOnly(board) ==
  \A row \in 0..2, col \in 0..2 :
    LET topLeft == row * GRID_COLS + col
        clumpLetters == <<board[topLeft], board[topLeft + 1],
                          board[topLeft + GRID_COLS],
                          board[topLeft + GRID_COLS + 1]>>
    IN  ~(\A k \in 1..4 : clumpLetters[k] \in VOWELS)

\* The indices that clumpLetters reads for the window at (row, col).
clumpIndices(row, col) ==
  LET topLeft == row * GRID_COLS + col
  IN  <<topLeft, topLeft + 1, topLeft + GRID_COLS, topLeft + GRID_COLS + 1>>

\* clumpLetters.every(vowel) || clumpLetters.every(not vowel)
isClump(board, row, col) ==
  LET clumpLetters == [k \in 1..4 |-> letterAt(board, clumpIndices(row, col)[k])]
  IN  \/ \A k \in 1..4 : clumpLetters[k] \in VOWELS
      \/ \A k \in 1..4 : clumpLetters[k] \notin VOWELS

\* Variant of checkNoClumps whose loops stop one window short.
checkNoClumpsShort(board) ==
  \A row \in 0..1, col \in 0..1 : ~isClump(board, row, col)

\* checkNoClumps: false as soon as one 2x2 window is all vowels or all
\* non-vowels.
checkNoClumps(board) ==
  \A row \in 0..2, col \in 0..2 : ~isClump(board, row, col)

\* The cells checkNoClumps reads: those of every window up to the first
\* clump, rows outermost.
clumpReads(board) ==
  LET visited == {w \in (0..2) \X (0..2) :
                    \A v \in (0..2) \X (0..2) :
                      (v[1] * 3 + v[2] < w[1] * 3 + w[2])
                        => ~isClump(board, v[1], v[2])}
  IN  UNION {Range(clumpIndices(w[1], w[2])) : w \in visited}

\* --- Letter bag, sampled boards and dictionary files ----------------------
LETTER_BAG_STRING ==
  <<"E", "E", "E", "E", "E", "E", "E", "E", "E", "E", "E", "E", "A", "A", "A", "A",
    "A", "A", "A", "A", "A", "A", "R", "R", "R", "R", "R", "R", "R", "R", "R", "R",
    "I", "I", "I", "I", "I", "I", "I", "I", "I", "O", "O", "O", "O", "O", "O", "O",
    "O", "T", "T", "T", "T", "T", "T", "T", "T", "N", "N", "N", "N", "N", "N", "N",
    "N", "S", "S", "S", "S", "S", "S", "S", "L", "L", "L", "L", "L", "L", "U", "U",
    "U", "U", "D", "D", "D", "D", "G", "G", "G", "B", "B", "C", "C", "M", "M", "P",
    "P", "F", "F", "H", "H", "V", "V", "W", "W", "Y", "Y", "K", "J", "X", "Q", "Z">>

\* The letters of a 4x4 grid, row by row, as a board indexed from 0.
BoardOf(letters) == [i \in 0..(GRID_SIZE - 1) |-> letters[i + 1]]

BoardTooMany ==
  BoardOf(<<"C", "A", "T", "S",
            "O", "R", "E", "N",
            "D", "I", "N", "G",
            "L", "O", "S", "E">>)

BoardTooMany101 ==
  BoardOf(<<"P", "A", "T", "S",
            "O", "R", "E", "N",
            "D", "I", "N", "G",
            "L", "O", "S", "E">>)

BoardAccept ==
  BoardOf(<<"C", "A", "T", "S",
            "O", "R", "E", "N",
            "D", "I", "N", "G",
            "Q", "U", "S", "E">>)

BoardAccept2 ==
  BoardOf(<<"B", "A", "T", "D",
            "O", "R", "E", "N",
            "D", "I", "N", "G",
            "L", "O", "S", "E">>)

BoardTooFew ==
  BoardOf(<<"C", "A", "T", "S",
            "O", "L", "I", "N",
            "D", "U", "E", "G",
            "R", "O", "S", "E">>)

BoardVowelsLow ==
  BoardOf(<<"C", "A", "T", "S",
            "O", "R", "E", "N",
            "D", "I", "N", "G",
            "L", "T", "S", "D">>)

BoardVowelsHigh ==
  BoardOf(<<"U", "A", "T", "I",
            "O", "R", "E", "N",
            "D", "I", "N", "G",
            "L", "O", "S", "E">>)

BoardHard2 ==
  BoardOf(<<"J", "A", "T", "S",
            "O", "R", "E", "N",
            "D", "I", "N", "G",
            "K", "O", "S", "E">>)

BoardTwoQ ==
  BoardOf(<<"Q", "U", "T", "Q",
            "O", "R", "E", "N",
            "D", "I", "N", "G",
            "L", "O", "S", "E">>)

BoardQnoU ==
  BoardOf(<<"C", "A", "T", "Q",
            "O", "R", "E", "N",
            "D", "I", "N", "G",
            "U", "O", "S", "E">>)

BoardClumpVowels ==
  BoardOf(<<"U", "A", "T", "S",
            "O", "E", "E", "N",
            "D", "I", "N", "G",
            "L", "T", "S", "E">>)

BoardClumpConsonants ==
  BoardOf(<<"P", "A", "T", "S",
            "O", "R", "E", "N",
            "D", "I", "N", "G",
            "L", "O", "S", "T">>)

\* Word lists of the two prebuilt dictionary files.
CommonWords ==
  {
   <<"A", "R", "T", "S">>, <<"C", "A", "R">>, <<"C", "A", "T">>, <<"C", "A", "T", "S">>,
   <<"C", "O", "A", "T">>, <<"C", "O", "D">>, <<"C", "O", "R">>, <<"C", "O", "R", "D">>,
   <<"C", "R", "A", "T", "E">>, <<"D", "I", "N">>, <<"D", "I", "N", "E">>, <<"D", "I", "N", "S">>,
   <<"D", "I", "O">>, <<"D", "I", "R", "E">>, <<"D", "I", "S">>, <<"D", "O", "C">>,
   <<"D", "O", "L">>, <<"D", "O", "R">>, <<"D", "O", "S">>, <<"E", "A", "T", "S">>,
   <<"E", "N", "G">>, <<"E", "R", "N", "E">>, <<"E", "S", "T">>, <<"G", "E", "N">>,
   <<"I", "N", "N", "S">>, <<"I", "N", "S">>, <<"L", "O", "S", "E">>, <<"N", "E", "G">>,
   <<"N", "E", "S", "T">>, <<"N", "E", "T", "S">>, <<"N", "I", "L">>, <<"O", "A", "T", "S">>,
   <<"O", "C", "A">>, <<"O", "L", "D">>, <<"O", "R", "C">>, <<"O", "R", "E">>,
   <<"R", "E", "G">>, <<"R", "E", "S">>, <<"R", "I", "N", "E">>, <<"R", "O", "D">>,
   <<"S", "E", "A">>, <<"S", "E", "G">>, <<"S", "E", "I">>, <<"S", "E", "N">>,
   <<"S", "E", "N", "T">>, <<"S", "E", "T">>, <<"S", "I", "G", "N">>, <<"S", "I", "N">>,
   <<"S", "I", "N", "E">>, <<"S", "I", "N", "G">>, <<"S", "I", "N", "G", "E">>, <<"S", "N", "E">>,
   <<"S", "O", "D">>, <<"S", "T", "E">>, <<"T", "E", "N">>, <<"T", "E", "S">>,
   <<"T", "I", "N", "G", "E">>
  }

FullWords ==
  {
   <<"A", "C", "R", "E">>, <<"A", "E", "T">>, <<"A", "R", "C">>, <<"A", "R", "E">>,
   <<"A", "R", "T">>, <<"A", "R", "T", "S">>, <<"A", "T", "E">>, <<"C", "A", "R">>,
   <<"C", "A", "R", "E">>, <<"C", "A", "R", "E", "T">>, <<"C", "A", "R", "N">>, <<"C", "A", "R", "N", "S">>,
   <<"C", "A", "R", "T">>, <<"C", "A", "T">>, <<"C", "A", "T", "E", "R">>, <<"C", "A", "T", "S">>,
   <<"C", "O", "A", "R">>, <<"C", "O", "A", "T">>, <<"C", "O", "D">>, <<"C", "O", "R">>,
   <<"C", "O", "R", "D">>, <<"C", "O", "R", "E">>, <<"C", "R", "A", "T", "E">>, <<"D", "I", "E">>,
   <<"D", "I", "N">>, <<"D", "I", "N", "E">>, <<"D", "I", "N", "E", "R">>, <<"D", "I", "N", "S">>,
   <<"D", "I", "O">>, <<"D", "I", "O", "R">>, <<"D", "I", "R", "E">>, <<"D", "I", "S">>,
   <<"D", "O", "C">>, <<"D", "O", "L">>, <<"D", "O", "R">>, <<"D", "O", "S">>,
   <<"D", "O", "S", "E">>, <<"E", "A", "R">>, <<"E", "A", "T">>, <<"E", "A", "T", "S">>,
   <<"E", "N", "G">>, <<"E", "R", "A">>, <<"E", "R", "N">>, <<"E", "R", "N", "E">>,
   <<"E", "R", "N", "S">>, <<"E", "S", "T">>, <<"E", "T", "A">>, <<"G", "E", "N">>,
   <<"G", "E", "N", "E">>, <<"G", "E", "R">>, <<"G", "E", "T">>, <<"I", "D", "O", "L">>,
   <<"I", "N", "N", "S">>, <<"I", "N", "S">>, <<"I", "O", "N", "S">>, <<"I", "R", "E">>,
   <<"L", "I", "D">>, <<"L", "I", "O", "N">>, <<"L", "I", "O", "N", "S">>, <<"L", "O", "S", "E">>,
   <<"N", "E", "G">>, <<"N", "E", "S", "T">>, <<"N", "E", "T">>, <<"N", "E", "T", "S">>,
   <<"N", "I", "L">>, <<"N", "O", "D">>, <<"N", "O", "I", "R">>, <<"N", "O", "S">>,
   <<"N", "O", "S", "E">>, <<"O", "A", "R">>, <<"O", "A", "T">>, <<"O", "A", "T", "S">>,
   <<"O", "C", "A">>, <<"O", "L", "D">>, <<"O", "N", "E">>, <<"O", "N", "E", "S">>,
   <<"O", "R", "A">>, <<"O", "R", "C">>, <<"O", "R", "E">>, <<"R", "E", "G">>,
   <<"R", "E", "I">>, <<"R", "E", "N">>, <<"R", "E", "N", "T">>, <<"R", "E", "S">>,
   <<"R", "E", "T">>, <<"R", "I", "D">>, <<"R", "I", "N">>, <<"R", "I", "N", "E">>,
   <<"R", "I", "N", "G">>, <<"R", "O", "C">>, <<"R", "O", "D">>, <<"S", "E", "A">>,
   <<"S", "E", "G">>, <<"S", "E", "I">>, <<"S", "E", "N">>, <<"S", "E", "N", "T">>,
   <<"S", "E", "R">>, <<"S", "E", "T">>, <<"S", "I", "G", "N">>, <<"S", "I", "L", "O">>,
   <<"S", "I", "N">>, <<"S", "I", "N", "E">>, <<"S", "I", "N", "G">>, <<"S", "I", "N", "G", "E">>,
   <<"S", "I", "R">>, <<"S", "N", "E">>, <<"S", "O", "D">>, <<"S", "O", "I", "L">>,
   <<"S", "O", "L">>, <<"S", "O", "L", "D">>, <<"S", "O", "L", "I", "D">>, <<"S", "T", "E">>,
   <<"T", "A", "O">>, <<"T", "A", "R">>, <<"T", "E", "A">>, <<"T", "E", "A", "R">>,
   <<"T", "E", "G">>, <<"T", "E", "N">>, <<"T", "E", "N", "S">>, <<"T", "E", "R", "N">>,
   <<"T", "E", "R", "N", "E">>, <<"T", "E", "S">>, <<"T", "I", "N", "G", "E">>, <<"T", "R", "I", "N", "E">>,
   <<"T", "R", "I", "O">>
  }

\* A small literal dictionary with two-letter entries.
GoldenWords ==
  {<<"C", "A", "T">>, <<"C", "A", "T", "S">>, <<"A", "R", "E">>,
   <<"D", "I", "N">>, <<"D", "I", "N", "E", "R">>, <<"A", "T">>,
   <<"I", "N">>, <<"O", "N">>, <<"O", "R">>, <<"Q", "U">>}

\* Words whose three-letter prefixes are not themselves words.
PrefixOnlyWords ==
  {<<"C", "A", "T", "S">>, <<"E", "A", "R", "N">>, <<"L", "O", "S", "E">>}

\* Words that need a cell twice, or letters in cells that are not adjacent.
RepeatWords ==
  {<<"T", "A", "T">>, <<"E", "R", "E">>, <<"N", "I", "N", "E">>,
   <<"S", "E", "E", "S">>, <<"C", "A", "N">>, <<"I", "N", "N">>,
   <<"Z", "E", "N">>, <<"K", "I", "N">>}

CommonTrie == TrieOfWords(CommonWords)
FullTrie == TrieOfWords(FullWords)
\* A dictionary file holding "{}".
EmptyTrie == Trie(EmptyRoot)
\* A dictionary file whose nodes carry no isEndOfWord marker.
MarkerlessTrie == Trie([nodes |-> CommonTrie.root.nodes, isEndOfWord |-> {}])

SmallTries ==
  {TrieOfWords(GoldenWords), TrieOfWords(PrefixOnlyWords),
   TrieOfWords(RepeatWords), EmptyTrie, MarkerlessTrie}

\* A structurally valid board with 26 common and 29 full words.
BoardSparse ==
  BoardOf(<<"C", "A", "T", "S",
            "O", "F", "I", "N",
            "D", "U", "E", "G",
            "R", "O", "S", "E">>)

SampleBoards ==
  {BoardTooMany, BoardTooMany101, BoardAccept, BoardAccept2,
   BoardTooFew, BoardVowelsLow, BoardVowelsHigh, BoardHard2,
   BoardTwoQ, BoardQnoU, BoardClumpVowels, BoardClumpConsonants,
   BoardSparse}

SolveInputs ==
  {[board |-> b, trie |-> t] : b \in SampleBoards, t \in SmallTries}
  \cup {[board |-> b, trie |-> t] :
          b \in {BoardTooMany, BoardAccept, BoardTooFew},
          t \in {CommonTrie, FullTrie}}

\* Calls made between two calls on the input under test.
OtherInputs ==
  {[board |-> BoardAccept2, trie |-> TrieOfWords(GoldenWords)],
   [board |-> BoardTooFew, trie |-> TrieOfWords(PrefixOnlyWords)]}

\* --- generateDailyPuzzle: constants, inputs and checks ----------------------
MaxAttempts == 10000
MinVowels == 5
MaxVowels == 7
MaxHardConsonants == 1
MinCommonWords == 30
MaxAllWords == 100

\* let fullDictionaryTrie; let commonDictionaryTrie;
Undefined == [undefined |-> TRUE]

\* The parsed JSON objects a dictionary file can hold, by name: the two
\* prebuilt roots, "{}", and the common root without any marker.  The
\* module-level tries refer to them by name.
JsonObjects == {"scrabble", "common", "empty", "markerless"}
JsonRoot(name) ==
  CASE name = "scrabble" -> FullTrie.root
    [] name = "common" -> CommonTrie.root
    [] name = "empty" -> EmptyRoot
    [] name = "markerless" -> MarkerlessTrie.root

\* What require("./scrabble-dictionary.json") and
\* require("./common-dictionary.json") yield in a deployment.
DictionaryFiles ==
  {[full |-> "scrabble", common |-> "common"],
   [full |-> "scrabble", common |-> "empty"],
   [full |-> "scrabble", common |-> "markerless"]}

\* The deployments of one iteration: those above, and one whose two files
\* are interchanged, so that the common dictionary has words the full one
\* lacks.
BodyFiles ==
  DictionaryFiles \cup {[full |-> "common", common |-> "scrabble"]}

\* The Trie object whose root is the named JSON object.
TrieAt(t) == Trie(JsonRoot(t.root))

\* The calendar days new Date().toLocaleDateString('en-CA', ...) can yield,
\* in order.
FirstDay == "2026-11-05"
NextDay == "2026-11-06"
Dates == {FirstDay, NextDay}

\* 16 draws LETTER_BAG_STRING[Math.floor(Math.random() * length)].
DrawnBoards ==
  {b \in SampleBoards : \A i \in DOMAIN b : b[i] \in Range(LETTER_BAG_STRING)}

\* solveBoard tabulated over the drawn boards and the loadable tries.
SolveTable ==
  [b \in DrawnBoards, name \in JsonObjects |->
     solveBoard(b, Trie(JsonRoot(name)))]
solved(board, t) == SolveTable[board, t.root]

\* if (vowelCount < 5 || vowelCount > 7) continue;
vowelsOutOfRange(n) == n < MinVowels \/ n > MaxVowels

\* Variant of tooManyHardConsonants with a cap of two.
tooManyHardConsonantsTwo(n) == n > MaxHardConsonants + 1

\* if (hardConsonantCount > 1) continue;
tooManyHardConsonants(n) == n > MaxHardConsonants

\* qIndex !== -1 && !getNeighbors(qIndex, board).some(l => l === "U")
qWithoutU(board) ==
  LET qIndex == indexOf(board, "Q")
  IN  /\ qIndex # -1
      /\ ~(\E k \in 1..Len(getNeighbors(qIndex, board)) :
             getNeighbors(qIndex, board)[k] = "U")

\* The structural check on which the attempt continues, or "none".
structuralFailure(board) ==
  IF vowelsOutOfRange(vowelCount(board)) THEN "vowels"
  ELSE IF tooManyHardConsonants(hardConsonantCount(board)) THEN "hardConsonants"
  ELSE IF qWithoutU(board) THEN "qu"
  ELSE IF ~checkNoClumps(board) THEN "clumps"
  ELSE "none"

StructuralTable == [b \in DrawnBoards |-> structuralFailure(b)]

\* Variant of tooFewCommonWords with a floor of twenty.
tooFewCommonWordsTwenty(n) == n < MinCommonWords - 10

\* if (commonWords.size < 30) continue;
tooFewCommonWords(n) == n < MinCommonWords

tooManyWordsLenient(n) == n > MaxAllWords + 1

\* if (allWords.size > 100) continue;
tooManyWords(n) == n > MaxAllWords

\* The check on which the attempt continues, in the order of the loop body,
\* or "none" when the board is accepted.
failedCheck(board, commonTrie, fullTrie) ==
  IF StructuralTable[board] # "none" THEN StructuralTable[board]
  ELSE IF tooFewCommonWords(Cardinality(solved(board, commonTrie))) THEN "commonWords"
  ELSE IF tooManyWords(Cardinality(solved(board, fullTrie))) THEN "allWords"
  ELSE "none"

loopContinuesInclusive(n) == n <= MaxAttempts

\* for (...; attempt < 10000; ...)
loopContinues(n) == n < MaxAttempts

NoDoc == [exists |-> FALSE]

\* Variant of needsTries that rebuilds the tries on every invocation.
needsTriesAlways(t) == TRUE

\* if (!fullDictionaryTrie)
needsTries(t) == t = Undefined

\* Variant of afterAccept without the break: back to the loop condition.
afterAcceptNoBreak == "loop"

\* break; the statement after the loop is next.
afterAccept == "after"

\* Variant of docId that takes the calendar day in another time zone.
docIdOtherZone(date) == NextDay

\* db.collection('dailyPuzzles').doc(todayStr)
docId(date) == date

\* The document that puzzleRef.set(puzzleData) leaves behind.
puzzleData(found) ==
  [exists |-> TRUE,
   board |-> found.board,
   allWords |-> found.allWords,
   bonuses |-> << >>,
   createdAt |-> "serverTimestamp"]

\* --- States in which a part of the program has not run ---------------------
\* answers holds what the run-time trie answers to every query, once the
\* queries have been run on the current trie.
NoAnswers == << >>

NoCall == [none |-> TRUE]
\* firstFound holds the returned set of the first call, once there is one.
NotYet == {}
SolveIdle ==
  /\ solveIn = NoCall
  /\ lastCall = NoCall
  /\ lastFound = {}
  /\ firstFound = NotYet

TrieIdle ==
  /\ dictionaryTrie = Trie(Null)
  /\ words = {}
  /\ answers = NoAnswers

NoGridCall == [op |-> "none"]

GridIdle ==
  /\ gridIn = NoGridCall
  /\ gridOut = NoGridCall

NoBoard == [none |-> TRUE]

BodyIdle ==
  /\ bodyBoard = NoBoard
  /\ bodyAt = "none"
  /\ bodyLog = << >>
  /\ bodyCommonWords = {}
  /\ bodyAllWords = {}

DfsIdle ==
  /\ dfsIn = "none"
  /\ dfsPc = "none"
  /\ dfsI = 0
  /\ dfsStack = << >>
  /\ dfsFound = {}

\* --- Leaderboard service: the stores -------------------------------------
\* resetDailyLeaderboards: const dailyKeys = [...]
dailyKeys == {"daily_high_scores", "daily_total_points", "daily_best_word"}

\* The all-time keys written by submitScore.
alltimeKeys ==
  {"alltime_high_scores", "alltime_total_points", "alltime_best_word"}

RedisKeys == dailyKeys \cup alltimeKeys

\* A key that does not exist: the sorted set without members.
NoKey == [m \in {} |-> 0]

\* The players collection without documents.
NoPlayers == [u \in {} |-> 0]

ScoresIdle ==
  /\ redis = [k \in RedisKeys |-> NoKey]
  /\ games = {}
  /\ players = NoPlayers
  /\ calls = {}
  /\ returned = {}
  /\ thrown = {}
  /\ submits = 0

AuxIdle == GridIdle /\ BodyIdle /\ DfsIdle /\ ScoresIdle

GenIdle ==
  /\ files = [full |-> "scrabble", common |-> "common"]
  /\ fullDictionaryTrie = Undefined
  /\ commonDictionaryTrie = Undefined
  /\ trieBuilds = 0
  /\ pc = "idle"
  /\ todayStr = "none"
  /\ attempt = 0
  /\ foundBoard = Null
  /\ samples = 0
  /\ runs = 0
  /\ dailyPuzzles = [d \in Dates |-> NoDoc]
  /\ outcomes = {}
  /\ today = FirstDay

\* --- Build-time trie: inputs ----------------------------------------------
TrieAlphabet == {"A", "T"}

RECURSIVE StringsOfLen(_)
StringsOfLen(n) ==
  IF n = 0 THEN {<< >>}
  ELSE {Append(s, c) : s \in StringsOfLen(n - 1), c \in TrieAlphabet}

StringsUpTo(n) == UNION {StringsOfLen(k) : k \in 0..n}

IsPrefixOf(p, w) == Len(p) <= Len(w) /\ SubSeq(w, 1, Len(p)) = p

\* const dictionaryTrie = new Trie(); no word inserted yet.
InitTrie ==
  /\ SolveIdle
  /\ GenIdle
  /\ AuxIdle
  /\ dictionaryTrie = Trie(Null)
  /\ words = {}
  /\ answers = NoAnswers

\* for (const word of words) dictionaryTrie.insert(word)
Insert(word) ==
  /\ Cardinality(words) < MaxInserts
  /\ dictionaryTrie' = insert(dictionaryTrie, word)
  /\ words' = words \cup {word}
  /\ answers' = NoAnswers
  /\ UNCHANGED <<solveVars, genVars, auxVars>>

\* The run-time queries search(word) and search(word, true), for every word
\* of the query set, on the trie rebuilt from the saved root.
Search ==
  /\ answers' = [word \in StringsUpTo(MaxLen + 1) |->
                  [asWord |-> search(Trie(dictionaryTrie.root), word, FALSE),
                   asPrefix |-> search(Trie(dictionaryTrie.root), word, TRUE)]]
  /\ UNCHANGED <<dictionaryTrie, words>>
  /\ UNCHANGED <<solveVars, genVars, auxVars>>

NextTrie ==
  \/ \E word \in StringsUpTo(MaxLen) : Insert(word)
  \/ Search

SpecTrie == InitTrie /\ [][NextTrie]_vars

\* --- Grid helpers: inputs and calls ---------------------------------------
\* A board of sixteen different letters: a neighbour's letter names its cell.
BoardDistinct ==
  BoardOf(<<"A", "B", "C", "D", "E", "F", "G", "H",
            "I", "J", "K", "L", "M", "N", "O", "P">>)

\* A JavaScript array of letters, indexed from 0.
ArrayOf(letters) == [i \in 0..(Len(letters) - 1) |-> letters[i + 1]]

\* Arrays whose cell count is not GRID_COLS x GRID_COLS: three rows of four,
\* three rows of three, five rows of four.
BoardThreeRows ==
  ArrayOf(<<"A", "B", "C", "D", "E", "F", "G", "H", "I", "J", "K", "L">>)
BoardThreeByThree ==
  ArrayOf(<<"A", "B", "C", "D", "E", "F", "G", "H", "I">>)
BoardFiveRows ==
  ArrayOf(<<"A", "B", "C", "D", "E", "F", "G", "H", "I", "J",
            "K", "L", "M", "N", "O", "P", "Q", "R", "S", "T">>)

MalformedBoards == {BoardThreeRows, BoardThreeByThree, BoardFiveRows}

GridBoards == SampleBoards \cup {BoardDistinct} \cup MalformedBoards

\* A board without clumps: vowels and consonants alternate.
BoardChecker ==
  BoardOf(<<"A", "T", "A", "T",
            "T", "A", "T", "A",
            "A", "T", "A", "T",
            "T", "A", "T", "A">>)

\* BoardChecker with some cells of one 2x2 window overwritten by one letter.
ClumpBoards ==
  {[i \in 0..15 |-> IF i \in cells THEN l ELSE BoardChecker[i]] :
     cells \in UNION {SUBSET Range(clumpIndices(row, col)) :
                        row \in 0..2, col \in 0..2},
     l \in {"E", "J", "N"}}

\* BoardChecker with a Q in one or two cells and a U in another.
QBoards ==
  {[i \in 0..15 |-> IF i \in {q1, q2} THEN "Q"
                     ELSE IF i = u THEN "U"
                     ELSE BoardChecker[i]] :
     q1 \in 0..15, q2 \in 0..15, u \in 0..15}

GridInputs ==
  {[index |-> i, board |-> b] : i \in 0..19, b \in GridBoards}
    \cup {[index |-> 0, board |-> b] : b \in ClumpBoards \cup QBoards}

\* None of the grid helpers has a throw statement, and reading an array
\* outside its indices yields undefined: every call returns normally.
NoError == "none"

InitGrid ==
  /\ TrieIdle
  /\ ScoresIdle
  /\ SolveIdle
  /\ GenIdle
  /\ BodyIdle
  /\ DfsIdle
  /\ gridIn \in {in \in GridInputs : in.index \in DOMAIN in.board}
  /\ gridOut = NoGridCall

\* getNeighbors(index, board)
GetNeighbors ==
  /\ gridOut' = [op |-> "getNeighbors",
                 neighbors |-> getNeighbors(gridIn.index, gridIn.board),
                 error |-> NoError]
  /\ UNCHANGED gridIn
  /\ UNCHANGED <<trieVars, solveVars, genVars, bodyVars, dfsVars, scoreVars>>

\* The two nested offset loops of findWordsRecursive(index, "", [index], ...)
NeighbourLoop ==
  /\ gridOut' = [op |-> "neighbourLoop",
                 next |-> nextIndices(gridIn.index, <<gridIn.index>>),
                 error |-> NoError]
  /\ UNCHANGED gridIn
  /\ UNCHANGED <<trieVars, solveVars, genVars, bodyVars, dfsVars, scoreVars>>

\* checkNoClumps(board)
CheckNoClumps ==
  /\ gridOut' = [op |-> "checkNoClumps",
                 result |-> checkNoClumps(gridIn.board),
                 reads |-> clumpReads(gridIn.board),
                 error |-> NoError]
  /\ UNCHANGED gridIn
  /\ UNCHANGED <<trieVars, solveVars, genVars, bodyVars, dfsVars, scoreVars>>

\* The rare-consonant cap and the Q-U check of the loop body.
RareConsonantsAndQU ==
  /\ gridOut' = [op |-> "qu",
                 capped |-> tooManyHardConsonants(
                              hardConsonantCount(gridIn.board)),
                 qIndex |-> indexOf(gridIn.board, "Q"),
                 qWithoutU |-> qWithoutU(gridIn.board),
                 error |-> NoError]
  /\ UNCHANGED gridIn
  /\ UNCHANGED <<trieVars, solveVars, genVars, bodyVars, dfsVars, scoreVars>>

NextGrid ==
  \/ GetNeighbors
  \/ NeighbourLoop
  \/ CheckNoClumps
  \/ RareConsonantsAndQU

SpecGrid == InitGrid /\ [][NextGrid]_vars

\* --- Word finder: one call, step by step ----------------------------------
\* A sixteen-letter word along a path through every cell of BoardDistinct.
SnakeWord ==
  <<"A", "B", "C", "D", "H", "G", "F", "E",
    "I", "J", "K", "L", "P", "O", "N", "M">>

DfsInputs ==
  [name \in {"snake", "repeat", "golden", "threeRows", "common"} |->
     CASE name = "snake" ->
            [board |-> BoardDistinct, trie |-> TrieOfWords({SnakeWord})]
       [] name = "repeat" ->
            [board |-> BoardAccept, trie |-> TrieOfWords(RepeatWords)]
       [] name = "golden" ->
            [board |-> BoardTooMany, trie |-> TrieOfWords(GoldenWords)]
       [] name = "threeRows" ->
            [board |-> BoardThreeRows, trie |-> TrieOfWords(GoldenWords)]
       [] name = "common" ->
            [board |-> BoardAccept, trie |-> CommonTrie]]

\* The frame of a call findWordsRecursive(tileIndex, prefix, path, ...):
\* at its first statement, with the offset loops still to run.
Frame(tileIndex, prefix, path) ==
  [tileIndex |-> tileIndex, prefix |-> prefix, path |-> path,
   at |-> "entry", offset |-> 1]

Top == dfsStack[Len(dfsStack)]
Pop == SubSeq(dfsStack, 1, Len(dfsStack) - 1)
SetTop(frame) == [dfsStack EXCEPT ![Len(dfsStack)] = frame]

InitDfs ==
  /\ TrieIdle
  /\ ScoresIdle
  /\ SolveIdle
  /\ GenIdle
  /\ GridIdle
  /\ BodyIdle
  /\ dfsIn \in DOMAIN DfsInputs
  /\ dfsPc = "solve"
  /\ dfsI = 0
  /\ dfsStack = << >>
  /\ dfsFound = NewSet

\* solveBoard: findWordsRecursive(i, "", [i], foundWordsSet, board, trie)
StartCell ==
  /\ dfsPc = "solve"
  /\ dfsStack = << >>
  /\ dfsI < GRID_SIZE
  /\ dfsStack' = <<Frame(dfsI, << >>, <<dfsI>>)>>
  /\ dfsI' = dfsI + 1
  /\ UNCHANGED <<dfsIn, dfsPc, dfsFound>>
  /\ UNCHANGED <<trieVars, solveVars, genVars, gridVars, bodyVars, scoreVars>>

\* The first three statements of findWordsRecursive.
Enter ==
  /\ dfsStack # << >>
  /\ Top.at = "entry"
  /\ LET board == DfsInputs[dfsIn].board
         trie == DfsInputs[dfsIn].trie
         prefix == Top.prefix \o chars(letterAt(board, Top.tileIndex))
     IN  IF ~search(trie, prefix, TRUE)
           THEN /\ dfsStack' = Pop
                /\ UNCHANGED dfsFound
           ELSE /\ dfsFound' = IF IsWordHere(prefix, trie)
                                 THEN dfsFound \cup {prefix}
                                 ELSE dfsFound
                /\ dfsStack' = SetTop([Top EXCEPT !.prefix = prefix,
                                                   !.at = "loop"])
  /\ UNCHANGED <<dfsIn, dfsPc, dfsI>>
  /\ UNCHANGED <<trieVars, solveVars, genVars, gridVars, bodyVars, scoreVars>>

\* One iteration of the nested offset loops: skip, or recurse.
Iterate ==
  /\ dfsStack # << >>
  /\ Top.at = "loop"
  /\ Top.offset <= Len(Offsets)
  /\ LET col == Top.tileIndex % GRID_COLS
         row == Top.tileIndex \div GRID_COLS
         r_offset == Offsets[Top.offset][1]
         c_offset == Offsets[Top.offset][2]
         nextCol == col + c_offset
         nextRow == row + r_offset
         nextIndex == nextRow * GRID_COLS + nextCol
         caller == [Top EXCEPT !.offset = @ + 1]
     IN  IF /\ ~(r_offset = 0 /\ c_offset = 0)
            /\ InGrid(nextCol, nextRow)
            /\ ~pathIncludes(Top.path, nextIndex)
           THEN dfsStack' = Append(SetTop(caller),
                                   Frame(nextIndex, Top.prefix,
                                         Append(Top.path, nextIndex)))
           ELSE dfsStack' = SetTop(caller)
  /\ UNCHANGED <<dfsIn, dfsPc, dfsI, dfsFound>>
  /\ UNCHANGED <<trieVars, solveVars, genVars, gridVars, bodyVars, scoreVars>>

\* The offset loops are over: the call returns.
Return ==
  /\ dfsStack # << >>
  /\ Top.at = "loop"
  /\ Top.offset > Len(Offsets)
  /\ dfsStack' = Pop
  /\ UNCHANGED <<dfsIn, dfsPc, dfsI, dfsFound>>
  /\ UNCHANGED <<trieVars, solveVars, genVars, gridVars, bodyVars, scoreVars>>

\* return foundWordsSet
SolveReturn ==
  /\ dfsPc = "solve"
  /\ dfsStack = << >>
  /\ dfsI >= GRID_SIZE
  /\ dfsPc' = "done"
  /\ UNCHANGED <<dfsIn, dfsI, dfsStack, dfsFound>>
  /\ UNCHANGED <<trieVars, solveVars, genVars, gridVars, bodyVars, scoreVars>>

NextDfs ==
  \/ StartCell
  \/ Enter
  \/ Iterate
  \/ Return
  \/ SolveReturn

SpecDfs == InitDfs /\ [][NextDfs]_vars

\* The JavaScript call stack runs every started call to its end.
SpecDfsFair == SpecDfs /\ WF_vars(NextDfs)

\* --- Word finder: calls ---------------------------------------------------
InitSolve ==
  /\ TrieIdle
  /\ GenIdle
  /\ AuxIdle
  /\ solveIn \in SolveInputs
  /\ lastCall = NoCall
  /\ lastFound = {}
  /\ firstFound = NotYet

\* solveBoard(board, trie) on the input under test.
SolveBoard ==
  /\ lastFound' = solveBoard(solveIn.board, solveIn.trie)
  /\ lastCall' = solveIn
  /\ firstFound' = IF firstFound = NotYet THEN {lastFound'} ELSE firstFound
  /\ UNCHANGED solveIn
  /\ UNCHANGED <<trieVars, genVars, auxVars>>

\* solveBoard on another board and trie.
SolveOther(in) ==
  /\ in # solveIn
  /\ lastFound' = solveBoard(in.board, in.trie)
  /\ lastCall' = in
  /\ UNCHANGED <<solveIn, firstFound>>
  /\ UNCHANGED <<trieVars, genVars, auxVars>>

NextSolve ==
  \/ SolveBoard
  \/ \E in \in OtherInputs : SolveOther(in)

SpecSolve == InitSolve /\ [][NextSolve]_vars

\* --- generateDailyPuzzle ----------------------------------------------------
\* Process start: module-level tries undefined, no document written.
Init ==
  /\ TrieIdle
  /\ SolveIdle
  /\ AuxIdle
  /\ files \in DictionaryFiles
  /\ fullDictionaryTrie = Undefined
  /\ commonDictionaryTrie = Undefined
  /\ trieBuilds = 0
  /\ pc = "idle"
  /\ todayStr = "none"
  /\ attempt = 0
  /\ foundBoard = Null
  /\ samples = 0
  /\ runs = 0
  /\ dailyPuzzles = [d \in Dates |-> NoDoc]
  /\ outcomes = {}
  /\ today = FirstDay

\* The scheduler invokes the handler: todayStr, lazy construction of the
\* two tries, foundBoard = null, attempt = 0.
Invoke ==
  /\ pc = "idle"
  /\ runs < MaxRuns
  /\ runs' = runs + 1
  /\ todayStr' = today
  /\ IF needsTries(fullDictionaryTrie)
       THEN /\ fullDictionaryTrie' = [root |-> files.full]
            /\ commonDictionaryTrie' = [root |-> files.common]
            /\ trieBuilds' = trieBuilds + 1
       ELSE UNCHANGED <<fullDictionaryTrie, commonDictionaryTrie, trieBuilds>>
  /\ foundBoard' = Null
  /\ attempt' = 0
  /\ samples' = 0
  /\ pc' = "loop"
  /\ UNCHANGED <<files, dailyPuzzles, outcomes, today>>
  /\ UNCHANGED <<trieVars, solveVars, auxVars>>

\* One iteration of the loop body on a freshly drawn board: continue on the
\* first failed check, or set foundBoard and break.
Attempt(board) ==
  /\ pc = "loop"
  /\ loopContinues(attempt)
  /\ samples' = samples + 1
  /\ IF failedCheck(board, commonDictionaryTrie, fullDictionaryTrie) = "none"
       THEN /\ foundBoard' = [board |-> board,
                              allWords |-> solved(board, fullDictionaryTrie)]
            /\ pc' = afterAccept
            /\ UNCHANGED attempt
       ELSE /\ attempt' = attempt + 1
            /\ UNCHANGED <<foundBoard, pc>>
  /\ UNCHANGED <<files, fullDictionaryTrie, commonDictionaryTrie, trieBuilds,
                 todayStr,
                 runs, dailyPuzzles, outcomes, today>>
  /\ UNCHANGED <<trieVars, solveVars, auxVars>>

\* The loop condition fails: leave the loop with foundBoard still null.
LoopExit ==
  /\ pc = "loop"
  /\ ~loopContinues(attempt)
  /\ pc' = "after"
  /\ UNCHANGED <<files, fullDictionaryTrie, commonDictionaryTrie, trieBuilds,
                 todayStr,
                 attempt, foundBoard, samples, runs, dailyPuzzles, outcomes,
                 today>>
  /\ UNCHANGED <<trieVars, solveVars, auxVars>>

\* if (foundBoard) { await puzzleRef.set(puzzleData); logger.info }
\* else { logger.error }; the handler then returns undefined in both
\* branches and its locals are gone.
Finish ==
  /\ pc = "after"
  /\ IF foundBoard # Null
       THEN /\ dailyPuzzles' =
                 [dailyPuzzles EXCEPT ![docId(todayStr)] =
                    puzzleData(foundBoard)]
            /\ outcomes' = outcomes \cup
                 {[accepted |-> TRUE, returned |-> "undefined",
                   logged |-> "info", wrote |-> TRUE]}
       ELSE /\ UNCHANGED dailyPuzzles
            /\ outcomes' = outcomes \cup
                 {[accepted |-> FALSE, returned |-> "undefined",
                   logged |-> "error", wrote |-> FALSE]}
  /\ pc' = "idle"
  /\ foundBoard' = Null
  /\ attempt' = 0
  /\ samples' = 0
  /\ todayStr' = "none"
  /\ UNCHANGED <<files, fullDictionaryTrie, commonDictionaryTrie, trieBuilds,
                 runs, today>>
  /\ UNCHANGED <<trieVars, solveVars, auxVars>>

\* Midnight passes between two invocations.
DayPasses ==
  /\ pc = "idle"
  /\ runs >= 1
  /\ runs < MaxRuns
  /\ today = FirstDay
  /\ today' = NextDay
  /\ UNCHANGED <<files, fullDictionaryTrie, commonDictionaryTrie, trieBuilds,
                 pc, todayStr,
                 attempt, foundBoard, samples, runs, dailyPuzzles, outcomes>>
  /\ UNCHANGED <<trieVars, solveVars, auxVars>>

Next ==
  \/ Invoke
  \/ \E board \in DrawnBoards : Attempt(board)
  \/ LoopExit
  \/ Finish
  \/ DayPasses

Spec == Init /\ [][Next]_vars

\* --- generateDailyPuzzle: one iteration, statement by statement ------------
\* Variant of nextCheck that counts the common words before the structural
\* checks.
nextCheckWordsFirst(check) ==
  CASE check = "vowels" -> "commonWords"
    [] check = "commonWords" -> "hardConsonants"
    [] check = "hardConsonants" -> "qu"
    [] check = "qu" -> "clumps"
    [] check = "clumps" -> "allWords"
    [] check = "allWords" -> "accept"

\* The statement that follows a check that did not `continue`.
nextCheck(check) ==
  CASE check = "vowels" -> "hardConsonants"
    [] check = "hardConsonants" -> "qu"
    [] check = "qu" -> "clumps"
    [] check = "clumps" -> "commonWords"
    [] check = "commonWords" -> "allWords"
    [] check = "allWords" -> "accept"

\* An iteration has just drawn its board: the tries are built, attempt is
\* anywhere up to the last iteration.
InitBody ==
  /\ TrieIdle
  /\ ScoresIdle
  /\ SolveIdle
  /\ GridIdle
  /\ DfsIdle
  /\ files \in BodyFiles
  /\ fullDictionaryTrie = [root |-> files.full]
  /\ commonDictionaryTrie = [root |-> files.common]
  /\ trieBuilds = 1
  /\ pc = "loop"
  /\ todayStr = FirstDay
  /\ today = FirstDay
  /\ attempt \in {0, MaxAttempts - 1}
  /\ samples = attempt + 1
  /\ foundBoard = Null
  /\ runs = 1
  /\ dailyPuzzles = [d \in Dates |-> NoDoc]
  /\ outcomes = {}
  /\ bodyBoard \in DrawnBoards
  /\ bodyAt = "vowels"
  /\ bodyLog = << >>
  /\ bodyCommonWords = {}
  /\ bodyAllWords = {}

\* `continue`: attempt++ and back to the loop condition.
Continue ==
  /\ bodyAt' = "continue"
  /\ attempt' = attempt + 1
  /\ UNCHANGED <<pc, foundBoard>>

\* A check that evaluates `failed` and continues on it.
Check(check, failed) ==
  /\ pc = "loop"
  /\ bodyAt = check
  /\ bodyLog' = Append(bodyLog, check)
  /\ IF failed
       THEN Continue
       ELSE /\ bodyAt' = nextCheck(check)
            /\ UNCHANGED <<pc, foundBoard, attempt>>
  /\ UNCHANGED <<files, fullDictionaryTrie, commonDictionaryTrie, trieBuilds,
                 todayStr,
                 samples, runs, dailyPuzzles, outcomes, today, bodyBoard>>
  /\ UNCHANGED <<trieVars, solveVars, gridVars, dfsVars, scoreVars>>

CheckVowels ==
  /\ Check("vowels", vowelsOutOfRange(vowelCount(bodyBoard)))
  /\ UNCHANGED <<bodyCommonWords, bodyAllWords>>

CheckHardConsonants ==
  /\ Check("hardConsonants",
           tooManyHardConsonants(hardConsonantCount(bodyBoard)))
  /\ UNCHANGED <<bodyCommonWords, bodyAllWords>>

CheckQU ==
  /\ Check("qu", qWithoutU(bodyBoard))
  /\ UNCHANGED <<bodyCommonWords, bodyAllWords>>

CheckClumps ==
  /\ Check("clumps", ~checkNoClumps(bodyBoard))
  /\ UNCHANGED <<bodyCommonWords, bodyAllWords>>

\* const commonWords = solveBoard(board, commonDictionaryTrie); ...
SolveCommon ==
  /\ bodyAt = "commonWords"
  /\ bodyCommonWords' = solved(bodyBoard, commonDictionaryTrie)
  /\ Check("commonWords", tooFewCommonWords(Cardinality(bodyCommonWords')))
  /\ UNCHANGED bodyAllWords

\* const allWords = solveBoard(board, fullDictionaryTrie); ...
SolveFull ==
  /\ bodyAt = "allWords"
  /\ bodyAllWords' = solved(bodyBoard, fullDictionaryTrie)
  /\ Check("allWords", tooManyWords(Cardinality(bodyAllWords')))
  /\ UNCHANGED bodyCommonWords

\* foundBoard = { board, allWords: Array.from(allWords) }; break;
Accept ==
  /\ pc = "loop"
  /\ bodyAt = "accept"
  /\ foundBoard' = [board |-> bodyBoard, allWords |-> bodyAllWords]
  /\ bodyAt' = "break"
  /\ pc' = afterAccept
  /\ UNCHANGED <<files, fullDictionaryTrie, commonDictionaryTrie, trieBuilds,
                 todayStr,
                 attempt, samples, runs, dailyPuzzles, outcomes, today>>
  /\ UNCHANGED <<bodyBoard, bodyLog, bodyCommonWords, bodyAllWords>>
  /\ UNCHANGED <<trieVars, solveVars, gridVars, dfsVars, scoreVars>>

NextBody ==
  \/ CheckVowels
  \/ CheckHardConsonants
  \/ CheckQU
  \/ CheckClumps
  \/ SolveCommon
  \/ SolveFull
  \/ Accept

SpecBody == InitBody /\ [][NextBody]_vars

\* --- Word finder: properties ------------------------------------------------
\* Two cells are 8-directionally adjacent.
Abs(x) == IF x < 0 THEN -x ELSE x
Adjacent(i, j) ==
  /\ i # j
  /\ Abs((i \div GRID_COLS) - (j \div GRID_COLS)) <= 1
  /\ Abs((i % GRID_COLS) - (j % GRID_COLS)) <= 1

\* The paths of n pairwise distinct cells, consecutive ones adjacent, whose
\* letters are the first n letters of w.
RECURSIVE SpellingPaths(_, _, _)
SpellingPaths(board, w, n) ==
  IF n = 1
    THEN {<<i>> : i \in {j \in 0..(GRID_SIZE - 1) : board[j] = w[1]}}
    ELSE UNION {{Append(p, j) : j \in {c \in 0..(GRID_SIZE - 1) :
                                         /\ Adjacent(p[n - 1], c)
                                         /\ c \notin Range(p)
                                         /\ board[c] = w[n]}}
                : p \in SpellingPaths(board, w, n - 1)}

Spellable(board, w) == Len(w) >= 1 /\ SpellingPaths(board, w, Len(w)) # {}

\* C1: every string in the set returned by solveBoard(board, trie) has
\* length >= 3, is spelled by a path of pairwise distinct, consecutively
\* adjacent cells, and is marked as a complete word in the trie; no
\* two-letter string is ever returned, even when the trie marks it complete.
FoundWordsAreWordsOnPaths ==
  lastCall # NoCall =>
    \A w \in lastFound :
      /\ Len(w) >= 3
      /\ Spellable(lastCall.board, w)
      /\ w \in lastCall.trie.root.isEndOfWord

\* A call has returned words while the trie also marks as complete a
\* two-letter string on the board, and a spellable string of length >= 3 is
\* only a prefix.
FoundWordsWitness ==
  /\ lastCall # NoCall
  /\ lastFound # {}
  /\ \E w \in lastCall.trie.root.isEndOfWord :
       Len(w) = 2 /\ Spellable(lastCall.board, w)
  /\ \E p \in lastCall.trie.root.nodes \ lastCall.trie.root.isEndOfWord :
       Len(p) >= 3 /\ Spellable(lastCall.board, p)

\* C2: every word that is marked complete in the trie, has length >= 3 and
\* is spelled by some simple path of adjacent cells is in the set returned
\* by solveBoard: pruning on the prefix check drops no such word.
FinderIsExhaustive ==
  lastCall # NoCall =>
    \A w \in lastCall.trie.root.isEndOfWord :
      (Len(w) >= 3 /\ Spellable(lastCall.board, w)) => w \in lastFound

\* A call on a full dictionary has returned more than 100 words, among them
\* one of five letters.
FinderIsExhaustiveWitness ==
  /\ lastCall # NoCall
  /\ lastCall.trie = FullTrie
  /\ Cardinality(lastFound) > 100
  /\ \E w \in lastFound : Len(w) = 5

Queries == StringsUpTo(MaxLen + 1)

\* C7: after inserting any set of words, search(w) is true for every
\* inserted word, search(p, true) is true for every prefix of every inserted
\* word, and search(s) is false for every string that was not itself
\* inserted, proper prefixes of inserted words included.
TrieRoundTrip ==
  answers # NoAnswers =>
    /\ \A w \in words :
         /\ answers[w].asWord
         /\ \A p \in Prefixes(w) : answers[p].asPrefix
    /\ \A s \in Queries \ words : ~answers[s].asWord

\* The queries have been answered on a trie with two words, one a proper
\* prefix of the other, and with a proper prefix that was not inserted.
TrieRoundTripWitness ==
  /\ answers # NoAnswers
  /\ \E w \in words :
       /\ Len(w) = MaxLen
       /\ \E p \in Prefixes(w) \ {w} : p \in words
       /\ \E p \in Prefixes(w) : p # << >> /\ p \notin words /\ ~answers[p].asWord

\* C8 as stated: for every trie built by insert and every string s, the
\* empty string and the empty trie included, search(s, true) is true if and
\* only if at least one inserted word starts with s.
PrefixQueryIffSomeWordStartsWith ==
  answers # NoAnswers =>
    \A s \in Queries :
      answers[s].asPrefix <=> \E w \in words : IsPrefixOf(s, w)

\* C8 amended: search(s, true) is true if and only if s is the empty string
\* or at least one inserted word starts with s.
PrefixQueryIffEmptyOrSomeWordStartsWith ==
  answers # NoAnswers =>
    \A s \in Queries :
      answers[s].asPrefix <=> (s = << >> \/ \E w \in words : IsPrefixOf(s, w))

\* The queries have been answered on a trie with words: true for a proper
\* prefix that is not a word, false for a string that starts no word.
PrefixQueryWitness ==
  /\ answers # NoAnswers
  /\ \E s \in Queries :
       /\ s # << >>
       /\ s \notin words
       /\ \E w \in words : IsPrefixOf(s, w)
       /\ answers[s].asPrefix
  /\ \E s \in Queries :
       /\ Len(s) <= MaxLen
       /\ ~(\E w \in words : IsPrefixOf(s, w))
       /\ ~answers[s].asPrefix

\* ------------------------------------------------------------------
\* generateDailyPuzzle: properties
\* ------------------------------------------------------------------

\* The complete words of a dictionary that the board spells along a simple
\* path of adjacent cells, of the minimum length or longer: the Found-Words
\* Set stated without the search.
SpelledWords(board, name) ==
  {w \in JsonRoot(name).isEndOfWord : Len(w) >= 3 /\ Spellable(board, w)}

SpelledTable ==
  [b \in DrawnBoards, name \in JsonObjects |-> SpelledWords(b, name)]

Accepted == pc = "after" /\ foundBoard # Null

Exhausted == pc = "after" /\ foundBoard = Null

\* C3: whenever a board is accepted, the board has at least 30 words of the
\* common dictionary and at most 100 words of the full dictionary, and the
\* accepted word list is exactly the full-dictionary found-words set of
\* that same board.
AcceptedBoardMeetsWordCounts ==
  Accepted =>
    /\ Cardinality(SpelledTable[foundBoard.board, commonDictionaryTrie.root]) >= 30
    /\ Cardinality(SpelledTable[foundBoard.board, fullDictionaryTrie.root]) <= 100
    /\ Cardinality(solved(foundBoard.board, commonDictionaryTrie)) >= 30
    /\ Cardinality(solved(foundBoard.board, fullDictionaryTrie)) <= 100
    /\ foundBoard.allWords = SpelledTable[foundBoard.board, fullDictionaryTrie.root]
    /\ foundBoard.allWords = solved(foundBoard.board, fullDictionaryTrie)

\* A board is accepted whose full-dictionary count sits on the ceiling.
AcceptedBoardMeetsWordCountsWitness ==
  /\ Accepted
  /\ Cardinality(foundBoard.allWords) = 100
  /\ Cardinality(solved(foundBoard.board, commonDictionaryTrie)) >= 30

IsVowel(l) == l \in {"A", "E", "I", "O", "U"}

Window(r, c) ==
  {r * 4 + c, r * 4 + c + 1, (r + 1) * 4 + c, (r + 1) * 4 + c + 1}

StructureHolds(board) ==
  /\ Cardinality({i \in 0..15 : IsVowel(board[i])}) \in 5..7
  /\ Cardinality({i \in 0..15 : board[i] \in {"J", "K", "Q", "X", "Z"}}) <= 1
  /\ \A q \in 0..15 :
       board[q] = "Q" =>
         \E j \in 0..15 : Adjacent(q, j) /\ board[j] = "U"
  /\ \A r \in 0..2, c \in 0..2 :
       /\ \E i \in Window(r, c) : ~IsVowel(board[i])
       /\ \E i \in Window(r, c) : IsVowel(board[i])

StructureTable == [b \in DrawnBoards |-> StructureHolds(b)]

\* C4: whenever a board is accepted, it has between 5 and 7 vowels, at most
\* one letter of J, K, Q, X, Z, a U next to the Q if there is a Q, and no
\* 2x2 window of four vowels or of four non-vowels.
AcceptedBoardMeetsStructure ==
  Accepted => StructureTable[foundBoard.board]

\* A board holding a Q is accepted.
AcceptedBoardMeetsStructureWitness ==
  /\ Accepted
  /\ \E i \in 0..15 : foundBoard.board[i] = "Q"

FailureOutcome ==
  [accepted |-> FALSE, returned |-> "undefined",
   logged |-> "error", wrote |-> FALSE]

\* C5: when no sampled board satisfies all constraints, the loop ends after
\* exactly 10,000 sampling attempts, never more, and the run then ends in
\* the failure outcome.
ExhaustionAfterExactlyMaxAttempts ==
  /\ [](samples <= 10000 /\ attempt <= 10000)
  /\ [][Exhausted =>
          /\ samples = 10000
          /\ attempt = 10000
          /\ pc' = "idle"
          /\ FailureOutcome \in outcomes'
          /\ dailyPuzzles' = dailyPuzzles]_vars

\* A run of the normal deployment has left the loop without a board.
ExhaustionWitness ==
  /\ Exhausted
  /\ samples = 10000
  /\ commonDictionaryTrie.root = "common"

\* C6: the outcome returned to the caller on exhaustion differs from the
\* outcome of an accepting run, and an exhausted run has persisted nothing.
ExhaustionIsDistinguishable ==
  \A e \in outcomes, a \in outcomes :
    (~e.accepted /\ a.accepted) => (e.returned # a.returned /\ ~e.wrote)

EmptyLike(t) == t # Undefined /\ t.root \in {"empty", "markerless"}

\* C10: with an empty common trie, or one whose nodes carry no isEndOfWord
\* marker, solveBoard yields the empty set for every board, so a run
\* rejects every attempt and ends in exhaustion.
EmptyTrieExhausts ==
  EmptyLike(commonDictionaryTrie) =>
    /\ \A b \in DrawnBoards : solved(b, commonDictionaryTrie) = {}
    /\ foundBoard = Null
    /\ pc = "after" => samples = 10000 /\ attempt = 10000
    /\ \A o \in outcomes : ~o.accepted /\ o.logged = "error"

\* A run over the markerless common dictionary has exhausted its attempts
\* on boards that the normal deployment accepts.
EmptyTrieExhaustsWitness ==
  /\ Exhausted
  /\ commonDictionaryTrie.root = "markerless"
  /\ samples = 10000
  /\ \E b \in DrawnBoards : SolveTable[b, "common"] # {}

\* ------------------------------------------------------------------
\* Grid helpers: properties
\* ------------------------------------------------------------------

CellCount(board) == Cardinality(DOMAIN board)

NeighbourCells(i) ==
  {j \in 0..15 : /\ j # i
                 /\ Abs((i \div 4) - (j \div 4)) <= 1
                 /\ Abs((i % 4) - (j % 4)) <= 1}

ExpectedCount(i) ==
  IF i \in {0, 3, 12, 15} THEN 3
  ELSE IF i \in {5, 6, 9, 10} THEN 8
  ELSE 5

RECURSIVE Ascending(_)
Ascending(S) ==
  IF S = {}
    THEN << >>
    ELSE LET m == CHOOSE x \in S : \A y \in S : x <= y
         IN  <<m>> \o Ascending(S \ {m})

LettersAt(board, cells) ==
  [k \in 1..Cardinality(cells) |-> board[Ascending(cells)[k]]]

OnTheGrid ==
  /\ gridOut.op # "none"
  /\ CellCount(gridIn.board) = 16
  /\ gridIn.index \in 0..15

\* C12: on the 4x4 grid the neighbours of a cell are exactly the cells one
\* row and one column away at most, clipped to the grid (3, 5 or 8 of
\* them); the relation is symmetric, and the positions of the DFS loop and
\* of getNeighbors are the same.
NeighboursAreTheAdjacentCells ==
  OnTheGrid =>
    LET i == gridIn.index
        board == gridIn.board
    IN  /\ gridOut.op = "neighbourLoop" =>
              /\ gridOut.next = NeighbourCells(i)
              /\ Cardinality(gridOut.next) = ExpectedCount(i)
              /\ \A j \in gridOut.next : i \in nextIndices(j, <<j>>)
        /\ gridOut.op = "getNeighbors" =>
              /\ gridOut.neighbors = LettersAt(board, NeighbourCells(i))
              /\ gridOut.neighbors = LettersAt(board, nextIndices(i, <<i>>))
              /\ Len(gridOut.neighbors) = ExpectedCount(i)

\* getNeighbors has returned the eight neighbours of an interior cell of
\* the board of sixteen different letters.
NeighboursWitness ==
  /\ gridOut.op = "getNeighbors"
  /\ gridIn.board = BoardDistinct
  /\ gridIn.index = 6
  /\ Range(gridOut.neighbors) = {"B", "C", "D", "F", "H", "J", "K", "L"}

\* ------------------------------------------------------------------
\* generateDailyPuzzle: the puzzle store
\* ------------------------------------------------------------------

\* C13: a run writes the store at most once, only after accepting a board,
\* at the document of the run's date, with the accepted board, its
\* full-dictionary word list and empty bonuses; the document of a date is
\* the puzzle most recently accepted for it, and an exhausted run changes
\* no document.
StoreHoldsTheAcceptedPuzzle ==
  /\ [][dailyPuzzles' # dailyPuzzles => (Accepted /\ pc' = "idle")]_vars
  /\ [][(Accepted /\ pc' = "idle") =>
          /\ \A d \in Dates \ {todayStr} : dailyPuzzles'[d] = dailyPuzzles[d]
          /\ dailyPuzzles'[todayStr].exists
          /\ dailyPuzzles'[todayStr].board = foundBoard.board
          /\ DOMAIN dailyPuzzles'[todayStr].board = 0..15
          /\ dailyPuzzles'[todayStr].allWords =
               SpelledTable[foundBoard.board, fullDictionaryTrie.root]
          /\ dailyPuzzles'[todayStr].bonuses = << >>]_vars
  /\ [][(Exhausted /\ pc' = "idle") => dailyPuzzles' = dailyPuzzles]_vars
  /\ [](pc # "idle" => todayStr = today)

\* After an accepting run on the first day, a second run was exhausted and
\* the first day's document is still the accepted puzzle.
StoreWitness ==
  /\ pc = "idle"
  /\ runs = 2
  /\ FailureOutcome \in outcomes
  /\ dailyPuzzles[FirstDay].exists
  /\ dailyPuzzles[FirstDay].board = BoardAccept2
  /\ ~dailyPuzzles[NextDay].exists

\* ------------------------------------------------------------------
\* generateDailyPuzzle: the loop body
\* ------------------------------------------------------------------

CheckOrder ==
  <<"vowels", "hardConsonants", "qu", "clumps", "commonWords", "allWords">>

\* Whether the board fails the check, stated on the board itself.
Fails(check, b, common, full) ==
  CASE check = "vowels" ->
         Cardinality({i \in 0..15 : IsVowel(b[i])}) \notin 5..7
    [] check = "hardConsonants" ->
         Cardinality({i \in 0..15 : b[i] \in {"J", "K", "Q", "X", "Z"}}) > 1
    [] check = "qu" ->
         \E q \in 0..15 :
           /\ b[q] = "Q"
           /\ \A j \in 0..15 : j < q => b[j] # "Q"
           /\ ~\E j \in 0..15 : Adjacent(q, j) /\ b[j] = "U"
    [] check = "clumps" ->
         \E r \in 0..2, c \in 0..2 :
           \/ \A i \in Window(r, c) : IsVowel(b[i])
           \/ \A i \in Window(r, c) : ~IsVowel(b[i])
    [] check = "commonWords" -> Cardinality(SpelledTable[b, common]) < 30
    [] check = "allWords" -> Cardinality(SpelledTable[b, full]) > 100

FailsTable ==
  [b \in DrawnBoards, common \in JsonObjects, full \in JsonObjects |->
     [k \in 1..6 |-> Fails(CheckOrder[k], b, common, full)]]

\* C14: the checks of an attempt run in the order vowels, rare consonants,
\* Q-U, clumps, common word count, full word count; the first failing
\* check ends the attempt, so no word search runs on a board that fails a
\* structural check, and no full-dictionary search on a board with fewer
\* than 30 common words.
ChecksRunInOrderAndStopAtFirstFailure ==
  bodyAt # "none" =>
    LET fails == FailsTable[bodyBoard, commonDictionaryTrie.root,
                            fullDictionaryTrie.root]
        n == Len(bodyLog)
    IN  /\ n <= 6
        /\ bodyLog = SubSeq(CheckOrder, 1, n)
        /\ \A k \in 1..(n - 1) : ~fails[k]
        /\ bodyAt = "continue" <=> (n >= 1 /\ fails[n])
        /\ bodyAt = "break" => (n = 6 /\ ~fails[6])
        /\ "commonWords" \in Range(bodyLog) => StructureTable[bodyBoard]
        /\ "allWords" \in Range(bodyLog) =>
              Cardinality(SpelledTable[bodyBoard, commonDictionaryTrie.root]) >= 30

\* An attempt has ended at the common word count, after all four
\* structural checks and before the full-dictionary search.
ChecksWitness ==
  /\ bodyAt = "continue"
  /\ bodyLog = <<"vowels", "hardConsonants", "qu", "clumps", "commonWords">>
  /\ commonDictionaryTrie.root = "common"
  /\ bodyAllWords = {}

\* The statement-level iteration ends as the one-step Attempt does.
BodyAgreesWithAttempt ==
  LET failed == failedCheck(bodyBoard, commonDictionaryTrie, fullDictionaryTrie)
  IN  /\ bodyAt = "continue" =>
            /\ failed = bodyLog[Len(bodyLog)]
            /\ foundBoard = Null
            /\ attempt = samples
      /\ bodyAt = "break" =>
            /\ failed = "none"
            /\ foundBoard = [board |-> bodyBoard,
                             allWords |-> solved(bodyBoard, fullDictionaryTrie)]
            /\ attempt = samples - 1

PassesTable ==
  [b \in DrawnBoards, common \in JsonObjects, full \in JsonObjects |->
     \A k \in 1..6 : ~FailsTable[b, common, full][k]]

PassesEveryCheck(b) ==
  PassesTable[b, commonDictionaryTrie.root, fullDictionaryTrie.root]

\* C15: the loop stops at the first sampled board that passes every check:
\* nothing is sampled after it, the accepted board is the board of that
\* very attempt, and the attempt number is between 1 and 10,000.
AcceptanceIsTerminal ==
  /\ [](foundBoard # Null =>
          /\ pc = "after"
          /\ samples = attempt + 1
          /\ samples \in 1..10000
          /\ PassesEveryCheck(foundBoard.board))
  /\ [][Accepted =>
          /\ pc' = "idle"
          /\ samples' = 0
          /\ dailyPuzzles'[todayStr].board = foundBoard.board]_vars
  /\ [][(foundBoard = Null /\ foundBoard' # Null) =>
          /\ samples' = samples + 1
          /\ \E b \in DrawnBoards : foundBoard'.board = b /\ Attempt(b)]_vars
  /\ [][(pc = "loop" /\ pc' = "loop") =>
          /\ attempt' = attempt + 1
          /\ samples' = samples + 1
          /\ foundBoard' = Null
          /\ \E b \in DrawnBoards : ~PassesEveryCheck(b)]_vars
  /\ [](pc = "loop" => foundBoard = Null /\ samples = attempt)

\* The board of the last permitted attempt is accepted.
AcceptanceWitness ==
  /\ Accepted
  /\ samples = 10000
  /\ attempt = 9999

\* ------------------------------------------------------------------
\* checkNoClumps: properties
\* ------------------------------------------------------------------

SomeWindowIsUniform(b) ==
  \E r \in 0..2, c \in 0..2 :
    \/ \A i \in Window(r, c) : IsVowel(b[i])
    \/ \A i \in Window(r, c) : ~IsVowel(b[i])

\* C16: checkNoClumps returns false exactly when one of the nine 2x2
\* windows holds four vowels or four non-vowels, hard consonants counting
\* as non-vowels like any other consonant, and it reads cells 0..15 only.
ClumpCheckIsExact ==
  (gridOut.op = "checkNoClumps" /\ CellCount(gridIn.board) = 16) =>
    /\ gridOut.result = ~SomeWindowIsUniform(gridIn.board)
    /\ gridOut.reads \subseteq 0..15
    /\ gridOut.reads # {}

\* checkNoClumps has rejected a board whose only uniform window is the
\* last one, made of four hard consonants.
ClumpCheckWitness ==
  /\ gridOut.op = "checkNoClumps"
  /\ ~gridOut.result
  /\ gridOut.reads = 0..15
  /\ \A i \in {10, 11, 14, 15} : gridIn.board[i] = "J"

\* ------------------------------------------------------------------
\* findWordsRecursive: the calls
\* ------------------------------------------------------------------

\* The prefix of a call once the current cell's letter is appended.
PrefixWithCell(frame) ==
  IF frame.at = "entry"
    THEN frame.prefix \o <<DfsInputs[dfsIn].board[frame.tileIndex]>>
    ELSE frame.prefix

WellFormedCall(frame) ==
  LET path == frame.path
      prefix == PrefixWithCell(frame)
  IN  /\ \A k \in 1..Len(path) : path[k] \in 0..15
      /\ \A k \in 1..Len(path), m \in 1..Len(path) :
            k # m => path[k] # path[m]
      /\ path[Len(path)] = frame.tileIndex
      /\ Len(path) = Len(prefix)
      /\ \A k \in 1..Len(prefix) :
            prefix[k] = DfsInputs[dfsIn].board[path[k]]

SixteenCells == dfsIn \in {"snake", "repeat", "golden", "common"}

\* C17: in every call of findWordsRecursive the path holds pairwise
\* distinct cells of 0..15, is as long as the prefix with the current
\* letter appended, and spells that prefix; so the recursion is at most 16
\* deep, a call's path is the same before and after each of its recursive
\* calls, and solveBoard returns.
CallsKeepSimplePaths ==
  /\ [](SixteenCells =>
          /\ Len(dfsStack) <= 16
          /\ \A d \in 1..Len(dfsStack) :
                /\ WellFormedCall(dfsStack[d])
                /\ Len(dfsStack[d].path) = d
                /\ d > 1 => dfsStack[d].path =
                               Append(dfsStack[d - 1].path,
                                      dfsStack[d].tileIndex))
  /\ [][\A d \in 1..Len(dfsStack) :
          d <= Len(dfsStack') =>
            /\ dfsStack'[d].path = dfsStack[d].path
            /\ dfsStack'[d].tileIndex = dfsStack[d].tileIndex
            /\ d < Len(dfsStack) => dfsStack'[d].prefix = dfsStack[d].prefix]_vars
  /\ (dfsPc = "solve") ~> (dfsPc = "done")
  /\ [](dfsPc = "done" =>
          dfsFound = solveBoard(DfsInputs[dfsIn].board, DfsInputs[dfsIn].trie))

\* The recursion is sixteen calls deep, on a path through every cell.
CallsWitness ==
  /\ dfsIn = "snake"
  /\ Len(dfsStack) = 16
  /\ Top.at = "loop"
  /\ Top.prefix = SnakeWord
  /\ Range(Top.path) = 0..15

\* ------------------------------------------------------------------
\* generateDailyPuzzle: the module-level tries
\* ------------------------------------------------------------------

\* C18: no step changes a trie once it is built, and over any number of
\* invocations in one process the two tries are built at most once, by the
\* first invocation.
TriesAreBuiltOnceAndKept ==
  /\ [](trieBuilds <= 1)
  /\ [](runs >= 1 =>
          /\ trieBuilds = 1
          /\ fullDictionaryTrie = [root |-> files.full]
          /\ commonDictionaryTrie = [root |-> files.common])
  /\ [](runs = 0 => fullDictionaryTrie = Undefined /\ trieBuilds = 0)
  /\ [][fullDictionaryTrie # Undefined =>
          /\ fullDictionaryTrie' = fullDictionaryTrie
          /\ commonDictionaryTrie' = commonDictionaryTrie
          /\ trieBuilds' = trieBuilds
          /\ files' = files]_vars

\* A second invocation runs its loop on the tries of the first.
TriesWitness ==
  /\ runs = 2
  /\ pc = "loop"
  /\ attempt > 0
  /\ trieBuilds = 1

\* ------------------------------------------------------------------
\* The Q-U check
\* ------------------------------------------------------------------

QCells(b) == {i \in 0..15 : b[i] = "Q"}

\* C19: a board that passes the rare-consonant cap and the Q-U check has a
\* U next to every Q on it, although the check looks at the first Q only:
\* such a board holds one Q at most.
EveryQHasAnAdjacentU ==
  (/\ gridOut.op = "qu"
   /\ CellCount(gridIn.board) = 16
   /\ ~gridOut.capped
   /\ ~gridOut.qWithoutU)
    => /\ Cardinality(QCells(gridIn.board)) <= 1
       /\ \A q \in QCells(gridIn.board) :
            \E j \in 0..15 : Adjacent(q, j) /\ gridIn.board[j] = "U"

\* A board with a Q in the last cell and a U beside it has passed both
\* checks.
EveryQWitness ==
  /\ gridOut.op = "qu"
  /\ ~gridOut.capped
  /\ ~gridOut.qWithoutU
  /\ gridOut.qIndex = 15
  /\ gridIn.board[10] = "U"

\* ------------------------------------------------------------------
\* The two dictionaries
\* ------------------------------------------------------------------

WordsOf(t) == JsonRoot(t.root).isEndOfWord

CommonIsPartOfFull == WordsOf(commonDictionaryTrie) \subseteq WordsOf(fullDictionaryTrie)

\* C20: when every word of the common trie is a word of the full trie, the
\* common found-words set of every board is part of its full found-words
\* set, so the word list of an accepted puzzle has between 30 and 100
\* words and holds every common word counted toward the floor.
CommonWordsArePartOfAllWords ==
  (bodyAt # "none" /\ CommonIsPartOfFull) =>
    /\ \A b \in DrawnBoards :
         solved(b, commonDictionaryTrie) \subseteq solved(b, fullDictionaryTrie)
    /\ "allWords" \in Range(bodyLog) => bodyCommonWords \subseteq bodyAllWords
    /\ bodyAt = "break" =>
         /\ Cardinality(foundBoard.allWords) \in 30..100
         /\ bodyCommonWords \subseteq foundBoard.allWords
         /\ Cardinality(bodyCommonWords) >= 30

\* A board with exactly 30 common words is accepted with a longer list
\* that holds them all.
CommonWordsWitness ==
  /\ bodyAt = "break"
  /\ CommonIsPartOfFull
  /\ Cardinality(bodyCommonWords) = 30
  /\ Cardinality(foundBoard.allWords) > 30
  /\ bodyCommonWords \subseteq foundBoard.allWords

\* With the two files interchanged a board is accepted with fewer than 30
\* words: the premise on the two dictionaries is needed.
InterchangedFilesShipFewerWords ==
  /\ bodyAt = "break"
  /\ ~CommonIsPartOfFull
  /\ Cardinality(foundBoard.allWords) < 30

\* ------------------------------------------------------------------
\* Leaderboard service (src/functions/src/index.ts)
\* ------------------------------------------------------------------

\* --- Redis sorted-set commands ---------------------------------------------
\* ZADD key score member: the member gets the score, whatever it had.
zadd(z, score, member) ==
  [m \in DOMAIN z \cup {member} |-> IF m = member THEN score ELSE z[m]]

\* ZADD key GT score member: a member of the set is updated only to a
\* greater score; a member the set does not have is added.
zaddGT(z, score, member) ==
  IF member \in DOMAIN z /\ ~(score > z[member])
  THEN z
  ELSE zadd(z, score, member)

\* ZINCRBY key increment member: a member the set does not have counts 0.
zincrby(z, increment, member) ==
  zadd(z, (IF member \in DOMAIN z THEN z[member] ELSE 0) + increment, member)

\* Character codes of the characters of the members.
CharCode ==
  [c \in {"1", "2", ":", "A", "m", "n", "o", "s", "u", "y"} |->
     CASE c = "1" -> 49 [] c = "2" -> 50 [] c = ":" -> 58 [] c = "A" -> 65
       [] c = "m" -> 109 [] c = "n" -> 110 [] c = "o" -> 111
       [] c = "s" -> 115 [] c = "u" -> 117 [] c = "y" -> 121]

\* Lexicographic order of two members, which orders equal scores.
RECURSIVE lexLess(_, _)
lexLess(a, b) ==
  IF a = << >> THEN b # << >>
  ELSE IF b = << >> THEN FALSE
  ELSE IF a[1] = b[1] THEN lexLess(Tail(a), Tail(b))
  ELSE CharCode[a[1]] < CharCode[b[1]]

\* ZREVRANK key member: the number of members ranked above the member,
\* scores from high to low; {} stands for null (no such member), {n} for n.
zrevrank(z, member) ==
  IF member \notin DOMAIN z
  THEN {}
  ELSE {Cardinality({m \in DOMAIN z :
                       \/ z[m] > z[member]
                       \/ z[m] = z[member] /\ lexLess(member, m)})}

\* --- submitScore: the request and the locals -------------------------------
\* The requests.  request.auth is missing, without uid, or holds the uid
\* of a signed-in user; request.data.finalScore is a number or a value
\* Number() turns into NaN; request.data.words is an array of
\* {word, score} or not an array.  There are refused requests, games of one
\* player with a high and a missing score, and a game of another player.
Requests ==
  {[auth |-> [present |-> FALSE, uid |-> << >>],
    data |-> [finalScore |-> [type |-> "number", value |-> 2],
              words |-> [isArray |-> FALSE, items |-> << >>]]],
   [auth |-> [present |-> TRUE, uid |-> << >>],
    data |-> [finalScore |-> [type |-> "number", value |-> 2],
              words |-> [isArray |-> FALSE, items |-> << >>]]],
   [auth |-> [present |-> TRUE, uid |-> <<"u", "1">>],
    data |-> [finalScore |-> [type |-> "number", value |-> 2],
              words |-> [isArray |-> TRUE,
                         items |-> <<[word |-> "CAT", score |-> 2],
                                     [word |-> "CODE", score |-> 3]>>]]],
   [auth |-> [present |-> TRUE, uid |-> <<"u", "1">>],
    data |-> [finalScore |-> [type |-> "undefined", value |-> 0],
              words |-> [isArray |-> FALSE, items |-> << >>]]],
   [auth |-> [present |-> TRUE, uid |-> <<"u", "2">>],
    data |-> [finalScore |-> [type |-> "number", value |-> 1],
              words |-> [isArray |-> TRUE,
                         items |-> <<[word |-> "CAT", score |-> 2]>>]]]}

\* admin.auth().getUser(userId): a record with a display name, a record
\* without one, or an error.
Lookups == {[ok |-> TRUE, displayName |-> <<"A", "n", "n">>],
            [ok |-> TRUE, displayName |-> << >>],
            [ok |-> FALSE, displayName |-> << >>]}

\* if (!request.auth || !request.auth.uid)
unauthenticated(request) ==
  ~request.auth.present \/ request.auth.uid = << >>

\* const finalScore = Number(request.data.finalScore) || 0
finalScoreOf(request) ==
  IF request.data.finalScore.type = "number"
  THEN request.data.finalScore.value
  ELSE 0

\* const words = Array.isArray(request.data.words) ? request.data.words : []
wordsOf(request) ==
  IF request.data.words.isArray THEN request.data.words.items ELSE << >>

\* let playerName = "Anonymous"; try { ... displayName || "Anonymous" }
\* catch (error) { logger.error(...) }
Anonymous == <<"A", "n", "o", "n", "y", "m", "o", "u", "s">>
playerNameOf(lookup) ==
  IF lookup.ok /\ lookup.displayName # << >>
  THEN lookup.displayName
  ELSE Anonymous

\* const member = `${userId}:${playerName}`
memberOf(userId, playerName) == userId \o <<":">> \o playerName

\* words.reduce((max, word) => (word.score > max.score ? word : max),
\*              {word: "", score: 0})
RECURSIVE reduceBest(_, _)
reduceBest(ws, max) ==
  IF ws = << >> THEN max
  ELSE reduceBest(Tail(ws), IF Head(ws).score > max.score THEN Head(ws) ELSE max)

bestWordOf(ws) == reduceBest(ws, [word |-> "", score |-> 0])

\* The Redis commands of the promises array, in the order they are issued
\* on the connection.
Promises ==
  <<"daily_high_scores", "daily_total_points", "daily_best_word",
    "alltime_high_scores", "alltime_total_points", "alltime_best_word">>

\* What one Redis operation of the promises array does to its key.
redisAfter(key, z, c) ==
  CASE key = "daily_high_scores" -> zadd(z, c.finalScore, c.member)
    [] key = "daily_total_points" -> zincrby(z, c.finalScore, c.member)
    [] key = "daily_best_word" ->
         IF c.bestWord.score > 0
         THEN zaddGT(z, c.bestWord.score, c.member)
         ELSE z
    [] key = "alltime_high_scores" -> zaddGT(z, c.finalScore, c.member)
    [] key = "alltime_total_points" -> zincrby(z, c.finalScore, c.member)
    [] key = "alltime_best_word" ->
         IF c.bestWord.score > 0
         THEN zaddGT(z, c.bestWord.score, c.member)
         ELSE z

\* db.collection("games").add({userId, score: finalScore, words, timestamp})
gamesAfter(id, userId, finalScore, ws) ==
  games \cup {[id |-> id, userId |-> userId, score |-> finalScore,
               words |-> ws]}

\* db.doc(`players/${userId}`).set({increment(1), increment(finalScore)},
\*                                 {merge: true})
playersAfter(userId, finalScore) ==
  LET old == IF userId \in DOMAIN players
             THEN players[userId]
             ELSE [totalGamesPlayed |-> 0, totalPoints |-> 0]
  IN [u \in DOMAIN players \cup {userId} |->
        IF u = userId
        THEN [totalGamesPlayed |-> old.totalGamesPlayed + 1,
              totalPoints |-> old.totalPoints + finalScore]
        ELSE players[u]]

\* return {rank: rank !== null ? rank + 1 : null}
rankOf(rank) == {r + 1 : r \in rank}

\* --- Leaderboard service: the specification --------------------------------
\* The function instances: each serves one invocation at a time.
Instances == {"a", "b"}

InitScores ==
  /\ TrieIdle
  /\ SolveIdle
  /\ GenIdle
  /\ GridIdle
  /\ BodyIdle
  /\ DfsIdle
  /\ ScoresIdle

notScoreVars == <<trieVars, solveVars, genVars, gridVars, bodyVars, dfsVars>>

\* submitScore up to the promises array: the request is refused, or its
\* locals are computed and its operations issued.  The two Firestore
\* writes are an add and two increments, which no invocation reads: they
\* take effect with the step that issues them.
SubmitScore(request, lookup) ==
  /\ submits < MaxSubmits
  /\ Cardinality(calls) < Cardinality(Instances)
  /\ submits' = submits + 1
  /\ IF unauthenticated(request)
     THEN /\ thrown' = thrown \cup {[id |-> submits + 1,
                                     error |-> "unauthenticated"]}
          /\ UNCHANGED <<calls, games, players>>
     ELSE LET userId == request.auth.uid
              finalScore == finalScoreOf(request)
              ws == wordsOf(request)
          IN /\ calls' = calls \cup
                  {[id |-> submits + 1,
                    userId |-> userId,
                    finalScore |-> finalScore,
                    member |-> memberOf(userId, playerNameOf(lookup)),
                    bestWord |-> bestWordOf(ws),
                    at |-> 1]}
             /\ games' = gamesAfter(submits + 1, userId, finalScore, ws)
             /\ players' = playersAfter(userId, finalScore)
             /\ UNCHANGED thrown
  /\ UNCHANGED <<redis, returned>>
  /\ UNCHANGED notScoreVars

\* The next Redis command of one invocation takes effect.
Settle(c) ==
  /\ c \in calls
  /\ c.at <= Len(Promises)
  /\ LET key == Promises[c.at]
     IN redis' = [redis EXCEPT ![key] = redisAfter(key, redis[key], c)]
  /\ calls' = (calls \ {c}) \cup {[c EXCEPT !.at = c.at + 1]}
  /\ UNCHANGED <<games, players, returned, thrown, submits>>
  /\ UNCHANGED notScoreVars

\* await Promise.all(promises); zrevrank; return
ReturnRank(c) ==
  /\ c \in calls
  /\ c.at = Len(Promises) + 1
  /\ calls' = calls \ {c}
  /\ returned' = returned \cup
       {[id |-> c.id, userId |-> c.userId, member |-> c.member,
         finalScore |-> c.finalScore,
         rank |-> rankOf(zrevrank(redis["daily_high_scores"], c.member))]}
  /\ UNCHANGED <<redis, games, players, thrown, submits>>
  /\ UNCHANGED notScoreVars

\* resetDailyLeaderboards: del(dailyKeys) removes the three keys at once,
\* or fails and removes none; either way a line is logged and the handler
\* returns.
ResetDailyLeaderboards(ok) ==
  /\ redis' = IF ok
              THEN [k \in RedisKeys |-> IF k \in dailyKeys THEN NoKey ELSE redis[k]]
              ELSE redis
  /\ UNCHANGED <<games, players, calls, returned, thrown, submits>>
  /\ UNCHANGED notScoreVars

NextScores ==
  \/ \E request \in Requests, lookup \in Lookups : SubmitScore(request, lookup)
  \/ \E c \in calls : Settle(c)
  \/ \E c \in calls : ReturnRank(c)
  \/ \E ok \in BOOLEAN : ResetDailyLeaderboards(ok)

SpecScores == InitScores /\ [][NextScores]_vars

\* ------------------------------------------------------------------
\* The all-time high scores
\* ------------------------------------------------------------------

AllTime == redis["alltime_high_scores"]
Daily == redis["daily_high_scores"]

Max(S) == CHOOSE x \in S : \A y \in S : y <= x

\* The invocations that passed the sign-in check, finished or in flight.
Submissions == calls \cup returned

Players == {c.userId : c \in Submissions}

\* The members of a sorted set that carry the id of a player.
EntriesOf(userId, z) ==
  {m \in DOMAIN z : /\ Len(m) > Len(userId)
                    /\ SubSeq(m, 1, Len(userId) + 1) = userId \o <<":">>}

ScoresOfPlayer(userId) ==
  {c.finalScore : c \in {r \in Submissions : r.userId = userId}}

ScoresOfMember(member) ==
  {c.finalScore : c \in {r \in Submissions : r.member = member}}

\* An invocation of the member has written its daily score and not yet
\* its all-time score.
BetweenTheTwoWrites(member) ==
  \E c \in calls : c.member = member /\ c.at \in 2..4

\* Every invocation has run all its commands.
AllSettled == \A c \in calls : c.at = Len(Promises) + 1

\* Per member (user id and display name together): once its invocations
\* have run their commands, the all-time score of a member is the highest
\* score submitted under that member, and it is at least the daily score
\* of the member.
MemberScoreIsTheMembersBest ==
  /\ AllSettled =>
       /\ DOMAIN AllTime = {c.member : c \in Submissions}
       /\ \A m \in DOMAIN AllTime : AllTime[m] = Max(ScoresOfMember(m))
  /\ \A m \in DOMAIN Daily :
       ~BetweenTheTwoWrites(m) => m \in DOMAIN AllTime /\ AllTime[m] >= Daily[m]

\* No step removes a member from the all-time high scores or lowers its
\* score, and a reset leaves every all-time key as it is and the three
\* daily keys without members or as they are.
AllTimeScoresOnlyGrow ==
  [][/\ \A m \in DOMAIN AllTime :
          m \in DOMAIN AllTime' /\ AllTime'[m] >= AllTime[m]
     /\ \A ok \in BOOLEAN :
          ResetDailyLeaderboards(ok) =>
            /\ \A k \in alltimeKeys : redis'[k] = redis[k]
            /\ \A k \in dailyKeys : redis'[k] = IF ok THEN NoKey ELSE redis[k]
            /\ UNCHANGED <<games, players, calls, returned, thrown>>]_vars

\* C21: once the calls of submitScore have completed, every entry of a
\* player in alltime_high_scores holds the highest finalScore the player
\* has submitted and is not lower than the player's score in
\* daily_high_scores.
AllTimeScoreIsThePlayersBest ==
  calls = {} =>
    \A u \in Players :
      \A m \in EntriesOf(u, AllTime) :
        /\ AllTime[m] = Max(ScoresOfPlayer(u))
        /\ \A d \in EntriesOf(u, Daily) : AllTime[m] >= Daily[d]

====
